---- MODULE Spec2Model ----
(***************************************************************************)
(* sidemonitor: one window per configured website, a system tray that      *)
(* selects a website or toggles visibility, and an optional slider task    *)
(* that rotates the shown website.                                         *)
(*                                                                         *)
(* Two threads act on the shared AppState: the main (event) thread, which  *)
(* runs setup_handler, system_tray_event_handler and run_handler, and the  *)
(* slider task spawned at the end of setup_handler.  Every lock            *)
(* acquisition and every call into a window or the tray is one step.       *)
(* Indices are 0-based as in the source; window "window-i" is element i+1  *)
(* of the sequence windows.                                                *)
(***************************************************************************)
EXTENDS Integers, Sequences, FiniteSets, TLC

\* Bounds of the model: the longest websites list and the number of names.
MaxWebsites == 3
NumNames == 3

Names == 1..NumNames

RECURSIVE SeqsUpTo(_, _)
SeqsUpTo(S, n) ==
    IF n = 0 THEN {<<>>}
    ELSE LET shorter == SeqsUpTo(S, n - 1)
         IN  shorter \cup {Append(s, x) : s \in {t \in shorter : Len(t) = n - 1}, x \in S}

\* website.rs: struct WebSiteInfo { websites, default, slider }.  A website
\* is represented by its name (the url plays no part in the state machine);
\* Option<u64> is a sequence of length 0 (None) or 1 (Some).
WebSiteInfo ==
    [websites : SeqsUpTo(Names, MaxWebsites), default : Names, slider : {<<>>, <<1>>}]

\* What setup_handler finds on disk: no config dir, no websites.json, a file
\* serde cannot parse, or a file that parses into a WebSiteInfo.
Sources == {"no_config_dir", "missing", "malformed", "parsed"}

VARIABLES
    source,          \* what is on disk (fixed for the run)
    wi,              \* the WebSiteInfo the file parses into
    load_result,     \* <<>> before loading, else <<"Ok">> or <<error kind, name>>
    website,         \* AppState.website: Option<WebsiteState>, <<>> is None
    visible,         \* AppState.visible
    windows,         \* windows[i+1] = TRUE iff window-i is shown
    tray,            \* title of the tray item "visible"; <<>> before the tray is built
    visible_lock,    \* holder of AppState.visible's mutex
    website_lock,    \* holder of AppState.website's mutex
    current_id_lock, \* holder of WebsiteState.current_id's mutex
    spc,             \* position of the main thread in setup_handler
    s_i,             \* setup_handler: loop index i
    s_current_id,    \* setup_handler: local current_id
    upc,             \* position of the event thread in its current handler
    uop,             \* the event being handled
    u_branch,        \* trigger_visible: the branch taken ("hide" or "show")
    rpc,             \* position of the slider task ("none": never spawned)
    r_id,            \* slider task: local id
    r_total,         \* slider task: local current_total
    ticks,           \* history: slider iterations that advanced before the first user
                     \* event, counted mod 2 * len (0 after the first user event)
    hist             \* history: progress of a pair of back-to-back toggles

vars == <<source, wi, load_result, website, visible, windows, tray,
          visible_lock, website_lock, current_id_lock,
          spc, s_i, s_current_id, upc, uop, u_branch, rpc, r_id, r_total, ticks, hist>>

cfgvars == <<source, wi>>
lockvars == <<visible_lock, website_lock, current_id_lock>>
rotlocals == <<r_id, r_total>>

----------------------------------------------------------------------------
\* website.rs, WebSiteInfo::from_json: the validation loop.

\* from_json_loop without the duplicate check (every name is inserted).
RECURSIVE from_json_loop_NoDuplicateCheck(_, _, _, _)
from_json_loop_NoDuplicateCheck(w, k, names, has_default) ==
    IF k > Len(w.websites)
    THEN IF has_default THEN <<"Ok">> ELSE <<"DefaultNotFound", w.default>>
    ELSE LET name == w.websites[k]
             hd   == has_default \/ name = w.default
         IN  from_json_loop_NoDuplicateCheck(w, k + 1, names \cup {name}, hd)

RECURSIVE from_json_loop(_, _, _, _)
from_json_loop(w, k, names, has_default) ==
    IF k > Len(w.websites)
    THEN IF has_default THEN <<"Ok">> ELSE <<"DefaultNotFound", w.default>>
    ELSE LET name == w.websites[k]
             hd   == has_default \/ name = w.default
         IN  IF name \notin names
             THEN from_json_loop(w, k + 1, names \cup {name}, hd)
             ELSE <<"DuplicateName", name>>

from_json(src, w) ==
    IF src = "malformed" THEN <<"Malformed">>
    ELSE from_json_loop(w, 1, {}, FALSE)

\* main.rs, get_website_info: the is_file check, then from_json.
get_website_info(src, w) ==
    IF src = "missing" THEN <<"NotFound">> ELSE from_json(src, w)

----------------------------------------------------------------------------
\* Helpers for the shared state.

NoWebsite == <<>>
SomeWebsite(id, info) == <<[current_id |-> id, website_info |-> info]>>
current_id == website[1].current_id
WithCurrentId(id) == <<[website[1] EXCEPT !.current_id = id]>>

\* Window::hide / Window::show on window-id.
Hide(w, id) == [w EXCEPT ![id + 1] = FALSE]
Show(w, id) == [w EXCEPT ![id + 1] = TRUE]

Shown == {i \in 0..(Len(windows) - 1) : windows[i + 1]}

\* What a user can observe: active index, visible, shown windows, toggle title.
Obs == <<website, visible, windows, tray>>

NoHist == [n |-> 0, snap |-> <<>>]

----------------------------------------------------------------------------
\* main.rs, main: AppState { website: None, visible: true }.

Init ==
    /\ source \in Sources
    /\ wi \in WebSiteInfo
    /\ source # "parsed" => wi = [websites |-> <<>>, default |-> 1, slider |-> <<>>]
    /\ load_result = <<>>
    /\ website = NoWebsite
    /\ visible = TRUE
    /\ windows = <<>>
    /\ tray = <<>>
    /\ visible_lock = "free" /\ website_lock = "free" /\ current_id_lock = "free"
    /\ spc = "load" /\ s_i = 0 /\ s_current_id = 0
    /\ upc = "idle" /\ uop = <<>> /\ u_branch = "none"
    /\ rpc = "none" /\ r_id = 0 /\ r_total = 0
    /\ ticks = 0
    /\ hist = NoHist

----------------------------------------------------------------------------
\* main.rs, setup_handler (run on the main thread before the event loop).

\* SetupLoad with the load error dropped instead of unwrapped.
SetupLoad_ErrorIgnored ==
    /\ spc = "load"
    /\ IF source = "no_config_dir"
       THEN /\ load_result' = load_result
            /\ spc' = "failed"
       ELSE /\ load_result' = get_website_info(source, wi)
            /\ spc' = "create"
    /\ UNCHANGED <<source, wi, website, visible, windows, tray,
                   visible_lock, website_lock, current_id_lock,
                   s_i, s_current_id, upc, uop, u_branch, rpc, r_id, r_total, ticks, hist>>

\* Lines 140-141 and 206-208: resolve the config dir, load websites.json and
\* unwrap the result.  Without a config dir setup_handler returns Err; a load
\* error panics in unwrap.  Either way nothing after line 141 runs.
SetupLoad ==
    /\ spc = "load"
    /\ IF source = "no_config_dir"
       THEN /\ load_result' = load_result
            /\ spc' = "failed"
       ELSE /\ load_result' = get_website_info(source, wi)
            /\ spc' = IF load_result' = <<"Ok">> THEN "create" ELSE "failed"
    /\ UNCHANGED <<cfgvars, website, visible, windows, tray, lockvars,
                   s_i, s_current_id, upc, uop, u_branch, rpc, rotlocals, ticks, hist>>

\* Lines 145-155: WindowBuilder::build creates window-i, shown.
SetupBuild ==
    /\ spc = "create"
    /\ s_i < Len(wi.websites)
    /\ windows' = Append(windows, TRUE)
    /\ spc' = "built"
    /\ UNCHANGED <<cfgvars, load_result, website, visible, tray, lockvars,
                   s_i, s_current_id, upc, uop, u_branch, rpc, rotlocals, ticks, hist>>

\* SetupHideOrMark without the else branch (current_id stays 0).
SetupHideOrMark_NoMark ==
    /\ spc = "built"
    /\ windows' = IF wi.websites[s_i + 1] # wi.default
                  THEN [windows EXCEPT ![s_i + 1] = FALSE]
                  ELSE windows
    /\ s_current_id' = s_current_id
    /\ s_i' = s_i + 1
    /\ spc' = "create"
    /\ UNCHANGED <<source, wi, load_result, website, visible, tray,
                   visible_lock, website_lock, current_id_lock,
                   upc, uop, u_branch, rpc, r_id, r_total, ticks, hist>>

\* Lines 156-163: hide every window but the default one, whose index is kept.
SetupHideOrMark ==
    /\ spc = "built"
    /\ IF wi.websites[s_i + 1] # wi.default
       THEN /\ windows' = Hide(windows, s_i)
            /\ s_current_id' = s_current_id
       ELSE /\ windows' = windows
            /\ s_current_id' = s_i
    /\ s_i' = s_i + 1
    /\ spc' = "create"
    /\ UNCHANGED <<cfgvars, load_result, website, visible, tray, lockvars,
                   upc, uop, u_branch, rpc, rotlocals, ticks, hist>>

\* Line 164: populate AppState.website.
SetupStore ==
    /\ spc = "create"
    /\ s_i = Len(wi.websites)
    /\ website_lock = "free"
    /\ website' = SomeWebsite(s_current_id, wi)
    /\ spc' = "tray"
    /\ UNCHANGED <<cfgvars, load_result, visible, windows, tray, lockvars,
                   s_i, s_current_id, upc, uop, u_branch, rpc, rotlocals, ticks, hist>>

\* Lines 166-175: build the tray menu; the item "visible" is titled "Hide".
SetupTray ==
    /\ spc = "tray"
    /\ tray' = <<"Hide">>
    /\ spc' = "spawn"
    /\ UNCHANGED <<cfgvars, load_result, website, visible, windows, lockvars,
                   s_i, s_current_id, upc, uop, u_branch, rpc, rotlocals, ticks, hist>>

\* Lines 176-184: whether the slider task is spawned.
SliderStarts(w) == ~(w.slider = <<>>) /\ ~(Len(w.websites) < 1)

SetupSpawn ==
    /\ spc = "spawn"
    /\ rpc' = IF SliderStarts(wi) THEN "sleep" ELSE "none"
    /\ spc' = "running"
    /\ UNCHANGED <<cfgvars, load_result, website, visible, windows, tray, lockvars,
                   s_i, s_current_id, upc, uop, u_branch, rotlocals, ticks, hist>>

----------------------------------------------------------------------------
\* Events delivered to the event thread, one at a time.

\* system_tray_event_handler: DoubleClick, or MenuItemClick "visible".
\* A toggle that directly follows a completed toggle may continue the pair
\* recorded in hist or start a new one.
TrayToggle ==
    /\ spc = "running" /\ upc = "idle"
    /\ uop' = <<"toggle">>
    /\ upc' = "tv_lock_visible"
    /\ \/ hist' = [n |-> 1, snap |-> Obs]
       \/ hist.n = 2 /\ hist' = [hist EXCEPT !.n = 3]
    /\ ticks' = 0
    /\ UNCHANGED <<cfgvars, load_result, website, visible, windows, tray, lockvars,
                   spc, s_i, s_current_id, u_branch, rpc, rotlocals>>

\* run_handler: CloseRequested from window-id; prevent_close, then
\* trigger_visible.
CloseRequested(id) ==
    /\ spc = "running" /\ upc = "idle"
    /\ uop' = <<"close", id>>
    /\ upc' = "tv_lock_visible"
    /\ hist' = NoHist
    /\ ticks' = 0
    /\ UNCHANGED <<cfgvars, load_result, website, visible, windows, tray, lockvars,
                   spc, s_i, s_current_id, u_branch, rpc, rotlocals>>

\* system_tray_event_handler: MenuItemClick "window-id" (lines 89-91).
TraySelect(id) ==
    /\ spc = "running" /\ upc = "idle"
    /\ uop' = <<"select", id>>
    /\ upc' = "sel_lock_website"
    /\ hist' = NoHist
    /\ ticks' = 0
    /\ UNCHANGED <<cfgvars, load_result, website, visible, windows, tray, lockvars,
                   spc, s_i, s_current_id, u_branch, rpc, rotlocals>>

----------------------------------------------------------------------------
\* main.rs, trigger_visible.

\* Lines 52-54 and 60: lock visible (held to the end of the function), test
\* it and flip it.
TvLockVisible ==
    /\ upc = "tv_lock_visible"
    /\ visible_lock = "free"
    /\ visible_lock' = "ui"
    /\ u_branch' = IF visible THEN "hide" ELSE "show"
    /\ visible' = ~visible
    /\ upc' = "tv_lock_website"
    /\ UNCHANGED <<cfgvars, load_result, website, windows, tray,
                   website_lock, current_id_lock,
                   spc, s_i, s_current_id, uop, rpc, rotlocals, ticks, hist>>

\* Lines 55 and 61.
TvLockWebsite ==
    /\ upc = "tv_lock_website"
    /\ website_lock = "free"
    /\ website_lock' = "ui"
    /\ upc' = "tv_lock_current_id"
    /\ UNCHANGED <<cfgvars, load_result, website, visible, windows, tray,
                   visible_lock, current_id_lock,
                   spc, s_i, s_current_id, uop, u_branch, rpc, rotlocals, ticks, hist>>

\* Lines 56 and 62.
TvLockCurrentId ==
    /\ upc = "tv_lock_current_id"
    /\ current_id_lock = "free"
    /\ current_id_lock' = "ui"
    /\ upc' = "tv_window"
    /\ UNCHANGED <<cfgvars, load_result, website, visible, windows, tray,
                   visible_lock, website_lock,
                   spc, s_i, s_current_id, uop, u_branch, rpc, rotlocals, ticks, hist>>

\* Lines 57 and 63: hide or show the current window.
TvWindow ==
    /\ upc = "tv_window"
    /\ windows' = IF u_branch = "hide" THEN Hide(windows, current_id)
                                       ELSE Show(windows, current_id)
    /\ upc' = "tv_set_title"
    /\ UNCHANGED <<cfgvars, load_result, website, visible, tray, lockvars,
                   spc, s_i, s_current_id, uop, u_branch, rpc, rotlocals, ticks, hist>>

\* TvSetTitle with the title of the show branch in both branches.
TvSetTitle_AlwaysHide ==
    /\ upc = "tv_set_title"
    /\ tray' = <<"Hide">>
    /\ visible_lock' = "free" /\ website_lock' = "free" /\ current_id_lock' = "free"
    /\ upc' = "idle"
    /\ u_branch' = "none"
    /\ hist' = IF uop = <<"toggle">> /\ hist.n \in {1, 3}
               THEN [hist EXCEPT !.n = hist.n + 1]
               ELSE hist
    /\ UNCHANGED <<source, wi, load_result, website, visible, windows,
                   spc, s_i, s_current_id, uop, rpc, r_id, r_total, ticks>>

\* Lines 58 and 64-66: retitle the tray item, then drop the three guards.
TvSetTitle ==
    /\ upc = "tv_set_title"
    /\ tray' = IF u_branch = "hide" THEN <<"Show">> ELSE <<"Hide">>
    /\ visible_lock' = "free" /\ website_lock' = "free" /\ current_id_lock' = "free"
    /\ upc' = "idle"
    /\ u_branch' = "none"
    /\ hist' = IF uop = <<"toggle">> /\ hist.n \in {1, 3}
               THEN [hist EXCEPT !.n = hist.n + 1]
               ELSE hist
    /\ UNCHANGED <<cfgvars, load_result, website, visible, windows,
                   spc, s_i, s_current_id, uop, rpc, rotlocals, ticks>>

----------------------------------------------------------------------------
\* main.rs, system_tray_event_handler, the arm for a website's menu item.

\* Line 93.
SelLockWebsite ==
    /\ upc = "sel_lock_website"
    /\ website_lock = "free"
    /\ website_lock' = "ui"
    /\ upc' = "sel_lock_current_id"
    /\ UNCHANGED <<cfgvars, load_result, website, visible, windows, tray,
                   visible_lock, current_id_lock,
                   spc, s_i, s_current_id, uop, u_branch, rpc, rotlocals, ticks, hist>>

\* Line 94.
SelLockCurrentId ==
    /\ upc = "sel_lock_current_id"
    /\ current_id_lock = "free"
    /\ current_id_lock' = "ui"
    /\ upc' = "sel_hide"
    /\ UNCHANGED <<cfgvars, load_result, website, visible, windows, tray,
                   visible_lock, website_lock,
                   spc, s_i, s_current_id, uop, u_branch, rpc, rotlocals, ticks, hist>>

\* SelHide without the hide call.
SelHide_NoHide ==
    /\ upc = "sel_hide"
    /\ upc' = "sel_set_id"
    /\ UNCHANGED <<source, wi, load_result, website, visible, windows, tray,
                   visible_lock, website_lock, current_id_lock,
                   spc, s_i, s_current_id, uop, u_branch, rpc, r_id, r_total, ticks, hist>>

\* Line 95: hide the current window.
SelHide ==
    /\ upc = "sel_hide"
    /\ windows' = Hide(windows, current_id)
    /\ upc' = "sel_set_id"
    /\ UNCHANGED <<cfgvars, load_result, website, visible, tray, lockvars,
                   spc, s_i, s_current_id, uop, u_branch, rpc, rotlocals, ticks, hist>>

\* Line 96.
SelSetId ==
    /\ upc = "sel_set_id"
    /\ website' = WithCurrentId(uop[2])
    /\ upc' = "sel_show"
    /\ UNCHANGED <<cfgvars, load_result, visible, windows, tray, lockvars,
                   spc, s_i, s_current_id, uop, u_branch, rpc, rotlocals, ticks, hist>>

\* Line 97: show the chosen window.
SelShow ==
    /\ upc = "sel_show"
    /\ windows' = Show(windows, uop[2])
    /\ upc' = "sel_set_title"
    /\ UNCHANGED <<cfgvars, load_result, website, visible, tray, lockvars,
                   spc, s_i, s_current_id, uop, u_branch, rpc, rotlocals, ticks, hist>>

\* Lines 98-101.
SelSetTitle ==
    /\ upc = "sel_set_title"
    /\ tray' = <<"Hide">>
    /\ upc' = "sel_set_visible"
    /\ UNCHANGED <<cfgvars, load_result, website, visible, windows, lockvars,
                   spc, s_i, s_current_id, uop, u_branch, rpc, rotlocals, ticks, hist>>

\* SelSetVisible without the assignment to visible.
SelSetVisible_NoWrite ==
    /\ upc = "sel_set_visible"
    /\ visible_lock = "free"
    /\ website_lock' = "free" /\ current_id_lock' = "free"
    /\ upc' = "idle"
    /\ UNCHANGED <<source, wi, load_result, website, visible, windows, tray, visible_lock,
                   spc, s_i, s_current_id, uop, u_branch, rpc, r_id, r_total, ticks, hist>>

\* Lines 102-103: lock visible for the one assignment, then drop the guards
\* of website and current_id.
SelSetVisible ==
    /\ upc = "sel_set_visible"
    /\ visible_lock = "free"
    /\ visible' = TRUE
    /\ website_lock' = "free" /\ current_id_lock' = "free"
    /\ upc' = "idle"
    /\ UNCHANGED <<cfgvars, load_result, website, windows, tray, visible_lock,
                   spc, s_i, s_current_id, uop, u_branch, rpc, rotlocals, ticks, hist>>

----------------------------------------------------------------------------
\* main.rs, setup_handler, the slider task (lines 184-204).

\* Lines 186-190: the sleep ends; with no window the iteration is skipped.
RotWake ==
    /\ rpc = "sleep"
    /\ rpc' = IF Len(windows) < 1 THEN "sleep" ELSE "check_visible"
    /\ hist' = NoHist
    /\ UNCHANGED <<cfgvars, load_result, website, visible, windows, tray, lockvars,
                   spc, s_i, s_current_id, upc, uop, u_branch, rotlocals, ticks>>

\* RotCheckVisible with the guard of visible bound to a local of the loop body,
\* so that the iteration keeps it while it waits for website.
RotCheckVisible_KeepsGuard ==
    /\ rpc = "check_visible"
    /\ visible_lock = "free"
    /\ rpc' = IF ~visible THEN "sleep" ELSE "lock_website"
    /\ visible_lock' = IF ~visible THEN "free" ELSE "rot"
    /\ hist' = [n |-> 0, snap |-> <<>>]
    /\ UNCHANGED <<source, wi, load_result, website, visible, windows, tray,
                   website_lock, current_id_lock,
                   spc, s_i, s_current_id, upc, uop, u_branch, r_id, r_total, ticks>>

\* RotCheckVisible without the test of visible.
RotCheckVisible_NoTest ==
    /\ rpc = "check_visible"
    /\ visible_lock = "free"
    /\ rpc' = "lock_website"
    /\ hist' = [n |-> 0, snap |-> <<>>]
    /\ UNCHANGED <<source, wi, load_result, website, visible, windows, tray,
                   visible_lock, website_lock, current_id_lock,
                   spc, s_i, s_current_id, upc, uop, u_branch, r_id, r_total, ticks>>

\* Lines 191-194: lock visible, read it and drop the guard at the end of the
\* condition; when not visible the iteration ends.
RotCheckVisible ==
    /\ rpc = "check_visible"
    /\ visible_lock = "free"
    /\ rpc' = IF ~visible THEN "sleep" ELSE "lock_website"
    /\ hist' = NoHist
    /\ UNCHANGED <<cfgvars, load_result, website, visible, windows, tray, lockvars,
                   spc, s_i, s_current_id, upc, uop, u_branch, rotlocals, ticks>>

\* Line 195.
RotLockWebsite ==
    /\ rpc = "lock_website"
    /\ website_lock = "free"
    /\ website_lock' = "rot"
    /\ rpc' = "lock_current_id"
    /\ hist' = NoHist
    /\ UNCHANGED <<cfgvars, load_result, website, visible, windows, tray,
                   visible_lock, current_id_lock,
                   spc, s_i, s_current_id, upc, uop, u_branch, rotlocals, ticks>>

\* Line 196.
RotLockCurrentId ==
    /\ rpc = "lock_current_id"
    /\ current_id_lock = "free"
    /\ current_id_lock' = "rot"
    /\ rpc' = "advance"
    /\ hist' = NoHist
    /\ UNCHANGED <<cfgvars, load_result, website, visible, windows, tray,
                   visible_lock, website_lock,
                   spc, s_i, s_current_id, upc, uop, u_branch, rotlocals, ticks>>

\* NextId without the modulo.
NextId_NoModulo(id, total) == id + 1

\* NextId without the increment.
NextId_NoIncrement(id, total) == id % total

\* Lines 199-200: *current_id += 1; *current_id %= current_total.
NextId(id, total) == (id + 1) % total

\* Lines 197-200.
RotAdvance ==
    /\ rpc = "advance"
    /\ r_total' = Len(website[1].website_info.websites)
    /\ r_id' = current_id
    /\ website' = WithCurrentId(NextId(current_id, r_total'))
    /\ rpc' = "hide"
    /\ hist' = NoHist
    /\ UNCHANGED <<cfgvars, load_result, visible, windows, tray, lockvars,
                   spc, s_i, s_current_id, upc, uop, u_branch, ticks>>

\* RotHide without the hide call.
RotHide_NoHide ==
    /\ rpc = "hide"
    /\ rpc' = "show"
    /\ hist' = [n |-> 0, snap |-> <<>>]
    /\ UNCHANGED <<source, wi, load_result, website, visible, windows, tray,
                   visible_lock, website_lock, current_id_lock,
                   spc, s_i, s_current_id, upc, uop, u_branch, r_id, r_total, ticks>>

\* Line 201.
RotHide ==
    /\ rpc = "hide"
    /\ windows' = Hide(windows, r_id)
    /\ rpc' = "show"
    /\ hist' = NoHist
    /\ UNCHANGED <<cfgvars, load_result, website, visible, tray, lockvars,
                   spc, s_i, s_current_id, upc, uop, u_branch, rotlocals, ticks>>

\* Lines 202-203: show window (id + 1) % current_total; the guards of
\* website and current_id drop at the end of the iteration.
RotShow ==
    /\ rpc = "show"
    /\ windows' = Show(windows, (r_id + 1) % r_total)
    /\ website_lock' = "free" /\ current_id_lock' = "free"
    /\ rpc' = "sleep"
    /\ r_id' = 0 /\ r_total' = 0
    /\ ticks' = IF uop = <<>> THEN (ticks + 1) % (2 * r_total) ELSE 0
    /\ hist' = NoHist
    /\ UNCHANGED <<cfgvars, load_result, website, visible, tray, visible_lock,
                   spc, s_i, s_current_id, upc, uop, u_branch>>

----------------------------------------------------------------------------
Setup ==
    \/ SetupLoad \/ SetupBuild \/ SetupHideOrMark
    \/ SetupStore \/ SetupTray \/ SetupSpawn

Events ==
    \/ TrayToggle
    \/ \E id \in 0..(Len(windows) - 1) : CloseRequested(id)
    \/ \E id \in 0..(Len(windows) - 1) : TraySelect(id)

EventThread ==
    \/ TvLockVisible \/ TvLockWebsite \/ TvLockCurrentId \/ TvWindow \/ TvSetTitle
    \/ SelLockWebsite \/ SelLockCurrentId \/ SelHide \/ SelSetId \/ SelShow
    \/ SelSetTitle \/ SelSetVisible

SliderTask ==
    \/ RotWake \/ RotCheckVisible \/ RotLockWebsite \/ RotLockCurrentId
    \/ RotAdvance \/ RotHide \/ RotShow

Next == Setup \/ Events \/ EventThread \/ SliderTask

Spec == Init /\ [][Next]_vars

\* The program with no user at the tray: setup, then the slider task alone.
NextNoUser == Setup \/ SliderTask

SpecNoUser == Init /\ [][NextNoUser]_vars

\* Scheduling: both threads keep running, and a thread that waits for a
\* mutex gets it once the holder, which only runs a few straight-line
\* statements before it sleeps or returns to the event loop, has released it.
FairSpec == Spec /\ SF_vars(EventThread) /\ SF_vars(SliderTask)

----------------------------------------------------------------------------
\* Window calls that fail.  Every hide() and show() is unwrapped, so an Err
\* from the window panics the calling thread.  Unwinding drops the guards the
\* thread holds, which poisons their mutexes: a poisoned mutex is unlocked,
\* and every later lock().unwrap() on it panics.  A panic of the slider task
\* ends that task only; a panic on the main thread ends the process, and the
\* slider task, if it is still running, with it.

ProcessEnds ==
    /\ upc' = "panicked"
    /\ rpc' = IF rpc \in {"none", "panicked"} THEN rpc ELSE "dead"

\* Lines 57 and 63: hide() or show() returns Err inside trigger_visible.
TvWindowFails ==
    /\ upc = "tv_window"
    /\ ProcessEnds
    /\ visible_lock' = "poisoned"
    /\ website_lock' = "poisoned"
    /\ current_id_lock' = "poisoned"
    /\ UNCHANGED <<cfgvars, load_result, website, visible, windows, tray,
                   spc, s_i, s_current_id, uop, u_branch, rotlocals, ticks, hist>>

\* Line 95: hide() returns Err inside the select arm.
SelHideFails ==
    /\ upc = "sel_hide"
    /\ ProcessEnds
    /\ website_lock' = "poisoned"
    /\ current_id_lock' = "poisoned"
    /\ UNCHANGED <<cfgvars, load_result, website, visible, windows, tray, visible_lock,
                   spc, s_i, s_current_id, uop, u_branch, rotlocals, ticks, hist>>

\* Line 97: show() returns Err inside the select arm.
SelShowFails ==
    /\ upc = "sel_show"
    /\ ProcessEnds
    /\ website_lock' = "poisoned"
    /\ current_id_lock' = "poisoned"
    /\ UNCHANGED <<cfgvars, load_result, website, visible, windows, tray, visible_lock,
                   spc, s_i, s_current_id, uop, u_branch, rotlocals, ticks, hist>>

\* Line 201: hide() returns Err inside the slider task.
RotHideFails ==
    /\ rpc = "hide"
    /\ rpc' = "panicked"
    /\ website_lock' = "poisoned"
    /\ current_id_lock' = "poisoned"
    /\ hist' = NoHist
    /\ UNCHANGED <<cfgvars, load_result, website, visible, windows, tray, visible_lock,
                   spc, s_i, s_current_id, upc, uop, u_branch, rotlocals, ticks>>

\* Line 202: show() returns Err inside the slider task.
RotShowFails ==
    /\ rpc = "show"
    /\ rpc' = "panicked"
    /\ website_lock' = "poisoned"
    /\ current_id_lock' = "poisoned"
    /\ hist' = NoHist
    /\ UNCHANGED <<cfgvars, load_result, website, visible, windows, tray, visible_lock,
                   spc, s_i, s_current_id, upc, uop, u_branch, rotlocals, ticks>>

\* Lines 55 and 61: website.lock().unwrap() on a poisoned mutex.
TvLockWebsitePoisoned ==
    /\ upc = "tv_lock_website"
    /\ website_lock = "poisoned"
    /\ ProcessEnds
    /\ visible_lock' = "poisoned"
    /\ UNCHANGED <<cfgvars, load_result, website, visible, windows, tray,
                   website_lock, current_id_lock,
                   spc, s_i, s_current_id, uop, u_branch, rotlocals, ticks, hist>>

\* Line 93: website.lock().unwrap() on a poisoned mutex.
SelLockWebsitePoisoned ==
    /\ upc = "sel_lock_website"
    /\ website_lock = "poisoned"
    /\ ProcessEnds
    /\ UNCHANGED <<cfgvars, load_result, website, visible, windows, tray, lockvars,
                   spc, s_i, s_current_id, uop, u_branch, rotlocals, ticks, hist>>

WindowCallFails ==
    \/ TvWindowFails \/ SelHideFails \/ SelShowFails
    \/ RotHideFails \/ RotShowFails

PoisonedLock == TvLockWebsitePoisoned \/ SelLockWebsitePoisoned

\* The program with windows whose hide() and show() may fail.
NextFail == Next \/ WindowCallFails \/ PoisonedLock

SpecFail == Init /\ [][NextFail]_vars

----------------------------------------------------------------------------
\* No handler and no slider iteration is part-way through.
Quiescent ==
    /\ spc = "running"
    /\ upc = "idle"
    /\ rpc \in {"none", "sleep"}

\* C1: whenever no operation or tick is part-way through, visible = FALSE
\* implies that every window is hidden.
C1_NotVisibleAllHidden ==
    (Quiescent /\ ~visible) => Shown = {}

\* C3: whenever no operation or tick is part-way through, visible = TRUE
\* implies that the window at current_id is shown and every other is hidden.
C3_VisibleExactlyCurrentShown ==
    (Quiescent /\ visible) => Shown = {current_id}

\* C2: a slider iteration is atomic with respect to the handlers: between
\* its read of visible (which saw TRUE) and its update of current_id no other
\* operation has written visible.
C2_TickReadAndUpdateAtomic ==
    rpc \in {"lock_website", "lock_current_id", "advance"} => visible

C3_Witness ==
    /\ Quiescent /\ rpc = "sleep"
    /\ visible
    /\ Len(uop) = 2 /\ uop[1] = "select"
    /\ current_id # uop[2]
    /\ Shown = {current_id}

\* C4: when the handler of the menu item of website id completes,
\* current_id = id, visible = TRUE, window-id is the only window shown and
\* the toggle item is titled "Hide".
C4_SelectPostcondition ==
    [][(upc = "sel_set_visible" /\ upc' = "idle") =>
          /\ current_id' = uop[2]
          /\ visible'
          /\ Shown' = {uop[2]}
          /\ tray' = <<"Hide">>]_vars

C4_Witness ==
    /\ upc = "idle"
    /\ Len(uop) = 2 /\ uop[1] = "select"
    /\ s_current_id # uop[2]
    /\ current_id = uop[2]
    /\ visible
    /\ Shown = {uop[2]}
    /\ tray = <<"Hide">>

\* C5: two toggles in a row, with no other event and no slider step between
\* the start of the first and the end of the second, restore current_id,
\* visible, the shown windows and the toggle title.
C5_ToggleTwiceRestores ==
    hist.n = 4 => Obs = hist.snap

\* C6: a slider iteration that finds visible = FALSE goes back to sleep and
\* leaves current_id, visible, every window and the toggle title as they were.
C6_TickNoOpWhenNotVisible ==
    [][(rpc = "check_visible" /\ rpc' # rpc /\ ~visible) =>
          /\ rpc' = "sleep"
          /\ UNCHANGED <<website, visible, windows, tray>>]_vars

C6_Witness ==
    /\ rpc = "check_visible"
    /\ visible_lock = "free"
    /\ ~visible
    /\ Shown = {}

\* C7: with the slider running, at least two websites and no user event,
\* after k advancing iterations current_id = (start + k) mod N and the window
\* at current_id is the only one shown; after N of them current_id = start.
C7_RotationCycle ==
    (spc = "running" /\ rpc = "sleep" /\ Len(wi.websites) >= 2) =>
        /\ current_id = (s_current_id + ticks) % Len(wi.websites)
        /\ Shown = {current_id}
        /\ ticks = Len(wi.websites) => current_id = s_current_id

C7_Witness ==
    /\ spc = "running" /\ rpc = "sleep"
    /\ Len(wi.websites) = 3
    /\ ticks = 3
    /\ current_id = s_current_id

\* The position of the entry named by default.
DefaultPosition(w) ==
    CHOOSE i \in 0..(Len(w.websites) - 1) : w.websites[i + 1] = w.default

\* C8: when setup_handler succeeds, current_id is the position of the default
\* entry, visible = TRUE, that entry's window is the only one shown and the
\* toggle item is titled "Hide".
C8_StateAfterStartup ==
    [][(spc # "running" /\ spc' = "running") =>
          /\ current_id' = DefaultPosition(wi)
          /\ visible'
          /\ Shown' = {DefaultPosition(wi)}
          /\ tray' = <<"Hide">>]_vars

C8_Witness ==
    /\ spc = "running"
    /\ uop = <<>> /\ rpc = "none"
    /\ Len(windows) = 3
    /\ wi.websites[2] = wi.default
    /\ current_id = 1
    /\ visible
    /\ Shown = {1}
    /\ tray = <<"Hide">>

PairwiseDistinct(w) ==
    \A i, j \in 1..Len(w.websites) : i # j => w.websites[i] # w.websites[j]

DefaultPresent(w) ==
    \E i \in 1..Len(w.websites) : w.websites[i] = w.default

Loaded == source = "parsed" /\ load_result # <<>>

\* C9 as stated: a parsed catalog loads iff its names are pairwise distinct
\* and default names an entry; a shared name gives the duplicate-name error,
\* a default naming no entry gives the default-not-found error.
C9_LoadOutcomeAsStated ==
    Loaded =>
        /\ load_result = <<"Ok">> <=> (PairwiseDistinct(wi) /\ DefaultPresent(wi))
        /\ ~PairwiseDistinct(wi) => load_result[1] = "DuplicateName"
        /\ ~DefaultPresent(wi) => load_result[1] = "DefaultNotFound"

\* C9 amended: a parsed catalog loads iff its names are pairwise distinct and
\* default names an entry; a shared name gives the duplicate-name error, and
\* a default naming no entry gives the default-not-found error when the names
\* are pairwise distinct.
C9_LoadOutcome ==
    Loaded =>
        /\ load_result = <<"Ok">> <=> (PairwiseDistinct(wi) /\ DefaultPresent(wi))
        /\ ~PairwiseDistinct(wi) => load_result[1] = "DuplicateName"
        /\ (PairwiseDistinct(wi) /\ ~DefaultPresent(wi)) =>
               load_result[1] = "DefaultNotFound"

C9_Witness ==
    /\ Loaded
    /\ ~PairwiseDistinct(wi)
    /\ ~DefaultPresent(wi)
    /\ load_result[1] = "DuplicateName"

LoadFailed == load_result # <<>> /\ load_result # <<"Ok">>

\* C10: when loading fails, startup stops there: no window exists,
\* AppState.website stays None, no tray is built and the slider task is never
\* spawned.
C10_LoadFailureAborts ==
    LoadFailed =>
        /\ spc = "failed"
        /\ windows = <<>>
        /\ website = NoWebsite
        /\ tray = <<>>
        /\ rpc = "none"

C10_Witness ==
    /\ LoadFailed
    /\ load_result[1] = "DefaultNotFound"
    /\ Len(wi.websites) = 2
    /\ wi.slider # <<>>
    /\ spc = "failed"

\* C11: a close request from a window other than the current one changes
\* nothing: current_id, visible, every window and the toggle title stay as
\* they were (stated for runs without the slider task, where current_id is
\* still the one the request met).
C11_StaleCloseIsNoOp ==
    [][(/\ upc = "tv_lock_visible" /\ upc' # upc
        /\ uop[1] = "close"
        /\ uop[2] # current_id
        /\ rpc = "none") =>
           UNCHANGED <<website, visible, windows, tray>>]_vars

\* C12: with no slider interval, or with fewer than two websites, the slider
\* task is never spawned.
C12_SliderIdle ==
    (spc = "running" /\ (wi.slider = <<>> \/ Len(wi.websites) < 2)) => rpc = "none"

\* C13: whenever no handler is part-way through, the toggle item is titled
\* "Hide" iff visible = TRUE and "Show" iff visible = FALSE, whatever the
\* slider task is doing.
C13_TitleFollowsVisible ==
    (spc = "running" /\ upc = "idle") =>
        /\ tray = <<"Hide">> <=> visible
        /\ tray = <<"Show">> <=> ~visible

C13_Witness ==
    /\ spc = "running" /\ upc = "idle"
    /\ rpc = "show"
    /\ ~visible
    /\ tray = <<"Show">>

\* C14: once AppState.website is populated, current_id is in [0, number of
\* websites) and names an existing window.
C14_CurrentIdInRange ==
    website # NoWebsite =>
        /\ 0 <= current_id
        /\ current_id < Len(wi.websites)
        /\ current_id < Len(windows)

C14_Witness ==
    /\ website # NoWebsite
    /\ Len(wi.websites) = 3
    /\ rpc = "hide"
    /\ r_id = 2
    /\ current_id = 0

\* The window a handler or slider iteration in progress is about to make
\* current.
AboutToBeCurrent(i) ==
    \/ /\ upc \in {"sel_lock_website", "sel_lock_current_id", "sel_hide", "sel_set_id"}
       /\ i = uop[2]
    \/ /\ rpc \in {"lock_website", "lock_current_id", "advance"}
       /\ i = (current_id + 1) % Len(windows)

\* C17 as stated: after startup, in every state (also inside a handler or a
\* slider iteration), at most one window is shown, and a shown window is the
\* current one or the one an operation in progress is about to make current.
C17_NoDoubleShowAsStated ==
    spc = "running" =>
        /\ Cardinality(Shown) <= 1
        /\ \A i \in Shown : i = current_id \/ AboutToBeCurrent(i)

\* C17 amended: after startup, in every state, at most one window is shown,
\* and a shown window is the current one, the one an operation in progress is
\* about to make current, or the one a slider iteration has advanced from and
\* has not hidden (it is about to call hide, or its hide call failed).
C17_NoDoubleShow ==
    spc = "running" =>
        /\ Cardinality(Shown) <= 1
        /\ \A i \in Shown : \/ i = current_id
                            \/ AboutToBeCurrent(i)
                            \/ rpc \in {"hide", "panicked"} /\ i = r_id

C17_Witness ==
    /\ spc = "running"
    /\ rpc = "hide"
    /\ upc = "tv_lock_website"
    /\ Shown = {r_id}
    /\ r_id # current_id

\* C19: the handler of a website's menu item calls hide only when visible =
\* TRUE and the chosen website is not the current one.
C19_SelectHidesOnlyWhenNeeded ==
    [][(upc = "sel_hide" /\ upc' = "sel_set_id") =>
           (visible /\ current_id # uop[2])]_vars

\* C20: no step of the slider task writes visible or the toggle title, and
\* when an iteration that advanced current_id ends the toggle item is titled
\* "Hide".
C20_TickKeepsVisibleAndTitle ==
    [][/\ (rpc # "none" /\ rpc' # rpc) => UNCHANGED <<visible, tray>>
       /\ (rpc = "show" /\ rpc' = "sleep") => tray' = <<"Hide">>]_vars

\* C15: when a hide or show call fails inside trigger_visible or a slider
\* iteration, visible and current_id have the values they had before the
\* operation (u_branch records the value of visible that trigger_visible
\* found, r_id the value of current_id that the iteration found).
C15_FailureLeavesStateUnchanged ==
    [][/\ TvWindowFails => visible' = (u_branch = "hide")
       /\ (RotHideFails \/ RotShowFails) => current_id' = r_id]_vars

\* C16: a failed hide or show call is isolated: after a failure inside a
\* slider iteration the task goes on to its next sleep and leaves the mutexes
\* usable by the handlers; after a failure inside a handler the event thread
\* is ready for the next event and the slider task keeps running.
C16_FailureIsolated ==
    [][/\ (RotHideFails \/ RotShowFails) =>
             /\ rpc' = "sleep"
             /\ website_lock' = "free" /\ current_id_lock' = "free"
       /\ (TvWindowFails \/ SelHideFails \/ SelShowFails) =>
             /\ upc' = "idle"
             /\ rpc' = rpc]_vars

\* C18: no thread waits forever for the visible, website or current_id
\* mutex: every handler that has started returns, and every slider iteration
\* that has started reaches its next sleep.
C18_EveryOperationCompletes ==
    /\ (upc # "idle") ~> (upc = "idle")
    /\ (rpc \notin {"none", "sleep"}) ~> (rpc = "sleep")

C18_Witness ==
    /\ upc = "tv_lock_website"
    /\ visible_lock = "ui"
    /\ website_lock = "rot"

====
